---- MODULE Spec2Model ----
(***************************************************************************)
(* Model of src/server.js: an Express router over one Mongoose model,      *)
(* Employee.  The store is the MongoDB collection (documents in natural,   *)
(* i.e. insertion, order, with the unique index on email that the schema   *)
(* declares); every handler is cut at its awaits, so that the store        *)
(* operations of concurrent requests interleave.                           *)
(***************************************************************************)
EXTENDS Integers, Sequences, FiniteSets, TLC

\* ------------------------------------------------------------------ bounds
MaxIds == 3        \* ObjectIds in use, so documents the collection holds
MaxReq == 2        \* requests in flight at once
MaxPage == 2       \* largest page a search asks for
MaxRows == 2       \* largest rowsPerPage a search asks for, the default aside

\* ----------------------------------------------------------------- domains
\* ObjectIds.  CURRENT_USER_ID is the constant of the my_circle filter.
CURRENT_USER_ID == "685b"
IdPool == <<CURRENT_USER_ID, "aaaa", "bbbb", "cccc", "dddd">>
Ids == {IdPool[i] : i \in 1..MaxIds}
NoId == "null"          \* reportsTo: null (the schema's default)
BadId == "xyz"          \* a string that does not cast to an ObjectId
\* Text values are sequences of characters; <<>> is the empty/absent string.
Empty == <<>>

VARIABLES
    store,   \* the employees collection: documents in natural (insertion) order
    reqs     \* per connection: the request in flight, or the response it got
vars == <<store, reqs>>

Slots == 1..MaxReq
Idle == [op |-> "idle", pc |-> "idle"]

Range(s) == {s[i] : i \in DOMAIN s}
StoredIds(st) == {st[i].id : i \in DOMAIN st}
StoredEmails(st) == {st[i].email : i \in DOMAIN st}
Has(st, id) == id \in StoredIds(st)
Find(st, id) == st[CHOOSE i \in DOMAIN st : st[i].id = id]

\* ------------------------------------------------------------ the schema
\* EmployeeSchema: name and email are required strings (an empty string fails
\* `required`), reportsTo and _id must cast to an ObjectId; reportsTo
\* defaults to null; description and phone are optional strings (Empty when
\* absent).  img and the timestamps, which no handler reads, are left out.
TextFields == {"name", "email", "phone", "description"}
CastsToObjectId(v) == v \in Ids
RequiredOk(v) == v # Empty
ValidDoc(d) ==
    /\ RequiredOk(d.name)
    /\ RequiredOk(d.email)
    /\ CastsToObjectId(d.id)
    /\ (d.reportsTo = NoId \/ CastsToObjectId(d.reportsTo))

\* The unique indexes of the collection: _id, and email (unique: true).
\* self is the document being rewritten, "" for an insert.
\* Faulty variant: the schema without unique: true on email.
EmailNeverTaken(st, email, self) == FALSE
EmailTaken(st, email, self) ==
    \E i \in DOMAIN st : st[i].email = email /\ st[i].id # self
\* Faulty variant: only _id is indexed.
DuplicateKeyIdOnly(st, d) == Has(st, d.id)
DuplicateKey(st, d) == Has(st, d.id) \/ EmailTaken(st, d.email, "")

\* res.status(status).json(body): the slot keeps the request it answers.
\* cause names the branch of the handler that answered.
Done(r, status, cause, body) ==
    [op |-> r.op, pc |-> "done", req |-> r, status |-> status,
     cause |-> cause, body |-> body]
Answer(s, status, cause, body) ==
    reqs' = [reqs EXCEPT ![s] = Done(reqs[s], status, cause, body)]

\* A request arrives on a connection that has none in flight.
Receive(s, r) ==
    /\ reqs[s].pc = "idle"
    /\ reqs' = [reqs EXCEPT ![s] = r]
    /\ UNCHANGED store

\* The response has been sent: the connection is free for the next request.
Close(s) ==
    /\ reqs[s].pc = "done"
    /\ reqs' = [reqs EXCEPT ![s] = Idle]
    /\ UNCHANGED store

\* ------------------------------------------------------- POST /employees
\* new Employee(req.body); save() validates, then inserts; 201 with the
\* saved document, or 400 with the error's message, whatever the error.
PostSave(s, ok) ==
    /\ reqs[s].op = "post" /\ reqs[s].pc = "start"
    /\ LET d == reqs[s].doc IN
       IF ~ValidDoc(d)
       THEN Answer(s, 400, "validation", "error") /\ UNCHANGED store
       ELSE IF ~ok
       THEN Answer(s, 400, "store", "error") /\ UNCHANGED store
       ELSE IF DuplicateKey(store, d)
       THEN Answer(s, 400, "duplicate", "error") /\ UNCHANGED store
       ELSE store' = Append(store, d) /\ Answer(s, 201, "ok", d)

\* -------------------------------------------------- GET /employees/:id
GetById(s, ok) ==
    /\ reqs[s].op = "get" /\ reqs[s].pc = "start"
    /\ UNCHANGED store
    /\ LET id == reqs[s].id IN
       IF ~CastsToObjectId(id) THEN Answer(s, 400, "cast", "error")
       ELSE IF ~ok THEN Answer(s, 400, "store", "error")
       ELSE IF ~Has(store, id) THEN Answer(s, 404, "notfound", "error")
       ELSE Answer(s, 200, "ok", Find(store, id))

\* -------------------------------------------------- PUT /employees/:id
\* update = { name, description, email, phone, reportsTo: body.reportsTo ||
\* null }.  A key of the body that is absent gives undefined: Mongoose
\* either strips it from the $set (the field is kept) or sends null (and
\* `required` fails), depending on its version: strips.
PutSet(b, strips) ==
    [name  |-> IF "name" \in b.keys THEN b.name ELSE Empty,
     email |-> IF "email" \in b.keys THEN b.email ELSE Empty,
     phone |-> IF "phone" \in b.keys THEN b.phone ELSE Empty,
     description |-> IF "description" \in b.keys THEN b.description ELSE Empty,
     keeps |-> IF strips THEN TextFields \ b.keys ELSE {},
     reportsTo |-> b.reportsTo]
\* runValidators: the validators of the paths the $set names.
ValidSet(u) ==
    /\ "name" \in u.keeps \/ RequiredOk(u.name)
    /\ "email" \in u.keeps \/ RequiredOk(u.email)
    /\ (u.reportsTo = NoId \/ CastsToObjectId(u.reportsTo))
\* Faulty variant: reportsTo: req.body.reportsTo || the stored one.
UpdatedKeepsManager(d, u) ==
    [id |-> d.id,
     name  |-> IF "name" \in u.keeps THEN d.name ELSE u.name,
     email |-> IF "email" \in u.keeps THEN d.email ELSE u.email,
     phone |-> IF "phone" \in u.keeps THEN d.phone ELSE u.phone,
     description |-> IF "description" \in u.keeps THEN d.description
                     ELSE u.description,
     reportsTo |-> IF u.reportsTo = NoId THEN d.reportsTo ELSE u.reportsTo]
Updated(d, u) ==
    [id |-> d.id,
     name  |-> IF "name" \in u.keeps THEN d.name ELSE u.name,
     email |-> IF "email" \in u.keeps THEN d.email ELSE u.email,
     phone |-> IF "phone" \in u.keeps THEN d.phone ELSE u.phone,
     description |-> IF "description" \in u.keeps THEN d.description
                     ELSE u.description,
     reportsTo |-> u.reportsTo]
\* findByIdAndUpdate(id, update, {new: true}): no upsert.
UpdateStore(st, id, u) ==
    [i \in DOMAIN st |-> IF st[i].id = id THEN Updated(st[i], u) ELSE st[i]]

\* Faulty variant: findByIdAndUpdate with upsert: true.
PutUpsert(s, ok, strips) ==
    /\ reqs[s].op = "put" /\ reqs[s].pc = "start"
    /\ LET id == reqs[s].id
           u == PutSet(reqs[s].body, strips) IN
       IF ~CastsToObjectId(id) \/ ~ValidSet(u) \/ ~ok
       THEN Answer(s, 400, "error", "error") /\ UNCHANGED store
       ELSE IF ~Has(store, id)
       THEN /\ store' = Append(store, [id |-> id, name |-> u.name,
                           email |-> u.email, phone |-> u.phone,
                           description |-> u.description,
                           reportsTo |-> u.reportsTo])
            /\ Answer(s, 200, "ok", "upserted")
       ELSE /\ store' = UpdateStore(store, id, u)
            /\ Answer(s, 200, "ok", Updated(Find(store, id), u))
PutUpdate(s, ok, strips) ==
    /\ reqs[s].op = "put" /\ reqs[s].pc = "start"
    /\ LET id == reqs[s].id
           u == PutSet(reqs[s].body, strips) IN
       IF ~CastsToObjectId(id)
       THEN Answer(s, 400, "cast", "error") /\ UNCHANGED store
       ELSE IF ~ValidSet(u)
       THEN Answer(s, 400, "validation", "error") /\ UNCHANGED store
       ELSE IF ~ok
       THEN Answer(s, 400, "store", "error") /\ UNCHANGED store
       ELSE IF ~Has(store, id)
       THEN Answer(s, 404, "notfound", "error") /\ UNCHANGED store
       ELSE IF EmailTaken(store, Updated(Find(store, id), u).email, id)
       THEN Answer(s, 400, "duplicate", "error") /\ UNCHANGED store
       ELSE /\ store' = UpdateStore(store, id, u)
            /\ Answer(s, 200, "ok", Updated(Find(store, id), u))

\* ----------------------------------------------- DELETE /employees/:id
\* Faulty variant: the delete cascades to the reports.
RemoveCascade(st, id) == SelectSeq(st, LAMBDA d : d.id # id /\ d.reportsTo # id)
Remove(st, id) == SelectSeq(st, LAMBDA d : d.id # id)
Delete(s, ok) ==
    /\ reqs[s].op = "delete" /\ reqs[s].pc = "start"
    /\ LET id == reqs[s].id IN
       IF ~CastsToObjectId(id)
       THEN Answer(s, 400, "cast", "error") /\ UNCHANGED store
       ELSE IF ~ok
       THEN Answer(s, 400, "store", "error") /\ UNCHANGED store
       ELSE IF ~Has(store, id)
       THEN Answer(s, 404, "notfound", "error") /\ UNCHANGED store
       ELSE /\ store' = Remove(store, id)
            /\ Answer(s, 200, "ok", "Deleted successfully")

\* ---------------------------------------------- GET /employees/simple
\* find({}, {name: 1}): every document's _id and name.
SimpleList(st) == [i \in DOMAIN st |-> [id |-> st[i].id, name |-> st[i].name]]
Simple(s, ok) ==
    /\ reqs[s].op = "simple" /\ reqs[s].pc = "start"
    /\ UNCHANGED store
    /\ IF ~ok THEN Answer(s, 500, "store", "error")
       ELSE Answer(s, 200, "ok", SimpleList(store))

\* ------------------------------------------- GET /employees/hierarchy
\* byId[emp._id] = emp for every document of `all`.
ById(all) == StoredIds(all)
\* parent.children after the second forEach: the documents, in the order
\* of `all`, whose reportsTo is p.
ChildrenOf(all, p) ==
    IF p \in ById(all) THEN SelectSeq(all, LAMBDA d : d.reportsTo = p) ELSE <<>>
\* roots: the documents whose reportsTo is falsy (null).  A document whose
\* reportsTo names no document of `all` is pushed nowhere.
\* Faulty variant: a document whose manager is missing is pushed to roots.
RootsWithOrphans(all) ==
    SelectSeq(all, LAMBDA d : d.reportsTo = NoId \/ d.reportsTo \notin ById(all))
Roots(all) == SelectSeq(all, LAMBDA d : d.reportsTo = NoId)
\* res.json(roots): each root serialised with its nested children arrays.
RECURSIVE Tree(_, _)
Tree(all, d) ==
    LET k == ChildrenOf(all, d.id) IN
    [emp |-> d, children |-> [i \in DOMAIN k |-> Tree(all, k[i])]]
HierarchyBody(all) ==
    LET r == Roots(all) IN [i \in DOMAIN r |-> Tree(all, r[i])]
Hierarchy(s, ok) ==
    /\ reqs[s].op = "hierarchy" /\ reqs[s].pc = "start"
    /\ UNCHANGED store
    /\ IF ~ok THEN Answer(s, 500, "store", "error")
       ELSE Answer(s, 200, "ok", HierarchyBody(store))

\* --------------------------------------------- GET /employees/search
\* Math.max(1, parseInt(x, 10)) for a numeric x.
AtLeast1(n) == IF n < 1 THEN 1 ELSE n
\* Faulty variant: the page is not counted from 1.
SkipOffByOne(page, rows) == AtLeast1(page) * AtLeast1(rows)
Skip(page, rows) == (AtLeast1(page) - 1) * AtLeast1(rows)
Limit(rows) == AtLeast1(rows)

\* new RegExp(searchTerm, 'i').  The patterns modelled are the literal ones
\* and one that does not compile, an unbalanced "(" (a SyntaxError).
Compiles(term) == "(" \notin Range(term)
Lower(c) == CASE c = "A" -> "a" [] c = "B" -> "b" [] OTHER -> c
\* regex.test(text) for a literal pattern, case-insensitive; a field that is
\* absent matches nothing.
RegexTest(term, text) ==
    /\ text # Empty
    /\ \E off \in 0..(Len(text) - Len(term)) :
          \A i \in 1..Len(term) : Lower(text[off + i]) = Lower(term[i])

AllFields == <<"name", "email", "phone", "description">>
SearchFields(group) == IF group \in Range(AllFields) THEN {group} ELSE Range(AllFields)
\* textMatch: $or over the search fields.
TextMatch(q, d) == \E f \in SearchFields(q.group) : RegexTest(q.term, d[f])
\* relClause, from the current employee's document me.
\* Faulty variant: { reportsTo: me.reportsTo } also for an employee without manager.
RelClauseAlwaysPeers(me) ==
    [kind |-> "circle", id |-> me.id, reportsTo |-> me.reportsTo]
RelClause(me) ==
    IF me.reportsTo # NoId
    THEN [kind |-> "circle", id |-> me.id, reportsTo |-> me.reportsTo]
    ELSE [kind |-> "self", id |-> me.id, reportsTo |-> NoId]
NoRel == [kind |-> "none", id |-> NoId, reportsTo |-> NoId]
RelMatch(rel, d) ==
    CASE rel.kind = "circle" -> d.id = rel.id \/ d.reportsTo = rel.reportsTo
      [] rel.kind = "self" -> d.id = rel.id
      [] OTHER -> TRUE
\* finalQuery: textMatch, and relClause too under filter=my_circle.
FinalQuery(q, rel, d) ==
    IF q.filter = "my_circle" THEN TextMatch(q, d) /\ RelMatch(rel, d)
    ELSE TextMatch(q, d)
Matching(st, q, rel) == SelectSeq(st, LAMBDA d : FinalQuery(q, rel, d))
\* find(finalQuery).skip(skip).limit(limit)
Page(m, skip, limit) ==
    SubSeq(m, skip + 1, IF Len(m) < skip + limit THEN Len(m) ELSE skip + limit)
\* populate('reportsTo', 'name'): the manager's _id and name, null when the
\* collection holds no such document.
Populate(st, d) ==
    [d EXCEPT !.reportsTo =
        IF Has(st, d.reportsTo)
        THEN [id |-> d.reportsTo, name |-> Find(st, d.reportsTo).name]
        ELSE [id |-> NoId, name |-> Empty]]

\* A rejection no try block catches.  Express 5 forwards it to the error
\* handler, which answers 500; Express 4 does not see it, and the request
\* is never answered.
Uncaught(s, forwards) ==
    IF forwards THEN Answer(s, 500, "uncaught", "error")
    ELSE reqs' = [reqs EXCEPT ![s].pc = "unanswered"]

\* Up to the first await: skip, limit and the RegExp, outside any try.
SearchStart(s, forwards) ==
    /\ reqs[s].op = "search" /\ reqs[s].pc = "start"
    /\ UNCHANGED store
    /\ IF ~Compiles(reqs[s].term) THEN Uncaught(s, forwards)
       ELSE IF reqs[s].filter = "my_circle"
       THEN reqs' = [reqs EXCEPT ![s].pc = "me"]
       ELSE reqs' = [reqs EXCEPT ![s].pc = "query"]

\* findById(CURRENT_USER_ID).select('reportsTo').lean(), outside any try.
SearchMe(s, ok, forwards) ==
    /\ reqs[s].op = "search" /\ reqs[s].pc = "me"
    /\ UNCHANGED store
    /\ IF ~ok THEN Uncaught(s, forwards)
       ELSE IF ~Has(store, CURRENT_USER_ID)
       THEN Answer(s, 404, "notfound", "Current employee not found")
       ELSE reqs' = [reqs EXCEPT ![s].pc = "query",
                                 ![s].rel = RelClause(Find(store, CURRENT_USER_ID))]

\* res.json({data, totalResults, page: Number(page), rowsPerPage: ...})
SearchBody(r, data, total) ==
    [data |-> data, totalResults |-> total, page |-> r.page,
     rowsPerPage |-> r.rows]
\* Promise.all resolves when both queries have: then the response.
Settle(s, r) ==
    IF r.data.state = "done" /\ r.total.state = "done"
    THEN reqs' = [reqs EXCEPT ![s] =
                    Done(reqs[s], 200, "ok", SearchBody(r, r.data.val, r.total.val))]
    ELSE reqs' = [reqs EXCEPT ![s] = r]

\* The find of Promise.all; a failure rejects Promise.all at once: 500.
SearchFind(s, ok) ==
    /\ reqs[s].op = "search" /\ reqs[s].pc = "query"
    /\ reqs[s].data.state = "todo"
    /\ UNCHANGED store
    /\ LET r == reqs[s]
           m == Matching(store, r, r.rel) IN
       IF ~ok THEN Answer(s, 500, "store", "error")
       ELSE reqs' = [reqs EXCEPT ![s].data =
                [state |-> "found",
                 val |-> Page(m, Skip(r.page, r.rows), Limit(r.rows))]]

\* The second query of the find: populate.
SearchPopulate(s, ok) ==
    /\ reqs[s].op = "search" /\ reqs[s].pc = "query"
    /\ reqs[s].data.state = "found"
    /\ UNCHANGED store
    /\ LET r == reqs[s]
           v == r.data.val IN
       IF ~ok THEN Answer(s, 500, "store", "error")
       ELSE Settle(s, [r EXCEPT !.data =
                [state |-> "done",
                 val |-> [i \in DOMAIN v |-> Populate(store, v[i])]]])

\* countDocuments(finalQuery), the other promise of Promise.all.
SearchCount(s, ok) ==
    /\ reqs[s].op = "search" /\ reqs[s].pc = "query"
    /\ reqs[s].total.state = "todo"
    /\ UNCHANGED store
    /\ LET r == reqs[s] IN
       IF ~ok THEN Answer(s, 500, "store", "error")
       ELSE Settle(s, [r EXCEPT !.total =
                [state |-> "done", val |-> Len(Matching(store, r, r.rel))]])

\* ------------------------------------------------------------- requests
Doc(id, name, email, reportsTo) ==
    [id |-> id, name |-> name, email |-> email, phone |-> Empty,
     description |-> Empty, reportsTo |-> reportsTo]
Post(d) == [op |-> "post", pc |-> "start", doc |-> d]
Get(id) == [op |-> "get", pc |-> "start", id |-> id]
Del(id) == [op |-> "delete", pc |-> "start", id |-> id]
Put(id, keys, name, email, reportsTo) ==
    [op |-> "put", pc |-> "start", id |-> id,
     body |-> [keys |-> keys, name |-> name, email |-> email, phone |-> Empty,
               description |-> Empty, reportsTo |-> reportsTo]]
GetSimple == [op |-> "simple", pc |-> "start"]
GetHierarchy == [op |-> "hierarchy", pc |-> "start"]
\* The defaults of the destructured query: searchTerm '', page 1,
\* rowsPerPage 20, filter 'none'; group is undefined when absent.
DefaultPage == 1
DefaultRows == 20
Search(term, page, rows, group, filter) ==
    [op |-> "search", pc |-> "start", term |-> term, page |-> page,
     rows |-> rows, group |-> group, filter |-> filter, rel |-> NoRel,
     data |-> [state |-> "todo", val |-> <<>>],
     total |-> [state |-> "todo", val |-> 0]]

Al == <<"A", "l">>
Bo == <<"b", "o">>
MailA == <<"a">>
MailB == <<"b">>
MailAB == <<"A", "b">>
EmailPool == <<MailA, MailB, MailAB, <<"b", "a">>, <<"o">> >>

Init ==
    /\ store = <<>>
    /\ reqs = [s \in Slots |-> Idle]

\* ---------------------------------------------------------------- Spec
\* One connection, requests one after another: create, read, update and
\* delete over two ids and two emails, with the malformed inputs.
CrudIds == {IdPool[1], IdPool[2]}
CrudRequests ==
    {Post(Doc(i, Al, e, r)) : i \in CrudIds, e \in {MailA, MailB},
                              r \in {NoId, CURRENT_USER_ID}}
    \cup {Post(Doc("aaaa", Empty, MailA, NoId)),
          Post(Doc("aaaa", Al, Empty, NoId)),
          Post(Doc("aaaa", Al, MailA, BadId))}
    \cup {Put(i, {"name", "email"}, Al, e, r) :
             i \in CrudIds \cup {BadId}, e \in {MailA, MailB},
             r \in {NoId, CURRENT_USER_ID}}
    \cup {Put(i, {}, Empty, Empty, NoId) : i \in CrudIds}
    \cup {Put(i, {"name", "email"}, Empty, MailA, NoId) : i \in CrudIds}
    \cup {Put("aaaa", {"name", "email"}, Al, MailA, BadId)}
    \cup {Get(i) : i \in CrudIds \cup {BadId}}
    \cup {Del(i) : i \in CrudIds \cup {BadId}}
    \cup {GetSimple}

Next ==
    \/ \E r \in CrudRequests : Receive(1, r)
    \/ \E ok \in BOOLEAN : PostSave(1, ok)
    \/ \E ok \in BOOLEAN : GetById(1, ok)
    \/ \E ok \in BOOLEAN, strips \in BOOLEAN : PutUpdate(1, ok, strips)
    \/ \E ok \in BOOLEAN : Delete(1, ok)
    \/ \E ok \in BOOLEAN : Simple(1, ok)
    \/ Close(1)

Spec == Init /\ [][Next]_vars

\* ------------------------------------------------------------ SpecRace
\* MaxReq connections at once: creates and updates that contend for two
\* emails.
RaceRequests ==
    {Post(Doc(i, Al, e, NoId)) : i \in CrudIds, e \in {MailA, MailB}}
    \cup {Put(i, {"name", "email"}, Al, e, NoId) :
             i \in CrudIds, e \in {MailA, MailB}}
NextRace ==
    \/ \E s \in Slots, r \in RaceRequests : Receive(s, r)
    \/ \E s \in Slots, ok \in BOOLEAN : PostSave(s, ok)
    \/ \E s \in Slots, ok \in BOOLEAN, strips \in BOOLEAN :
          PutUpdate(s, ok, strips)
    \/ \E s \in Slots : Close(s)
SpecRace == Init /\ [][NextRace]_vars

\* ------------------------------------------------------------ SpecHier
\* One connection: creates, updates and deletes that set every reportsTo
\* (each id with an email of its own), and the hierarchy read.
EmailOf(i) == EmailPool[CHOOSE k \in DOMAIN IdPool : IdPool[k] = i]
HierRequests ==
    {Post(Doc(i, Al, EmailOf(i), r)) : i \in Ids, r \in Ids \cup {NoId}}
    \cup {Put(i, {"name", "email"}, Al, EmailOf(i), r) :
             i \in Ids, r \in Ids \cup {NoId}}
    \cup {Del(i) : i \in Ids}
    \cup {GetHierarchy}
NextHier ==
    \/ \E r \in HierRequests : Receive(1, r)
    \/ \E ok \in BOOLEAN : PostSave(1, ok)
    \/ \E ok \in BOOLEAN, strips \in BOOLEAN : PutUpdate(1, ok, strips)
    \/ \E ok \in BOOLEAN : Delete(1, ok)
    \/ \E ok \in BOOLEAN : Hierarchy(1, ok)
    \/ Close(1)
SpecHier == Init /\ [][NextHier]_vars

\* ---------------------------------------------------------- SpecSearch
\* One connection: searches over a collection that creates and deletes
\* change between them.  The three employees differ in name and email, one
\* has a phone; each is created with or without the manager "bbbb".
WithPhone(d, phone) == [d EXCEPT !.phone = phone]
SearchDocs ==
    {Doc(CURRENT_USER_ID, Al, MailA, r) : r \in {NoId, "bbbb"}}
    \cup {WithPhone(Doc("aaaa", Bo, MailB, r), <<"a">>) : r \in {NoId, "bbbb"}}
    \cup {Doc("bbbb", Al, MailAB, NoId)}
SearchRequests ==
    {Search(t, p, r, g, f) :
        t \in {Empty, <<"a">>, <<"(">>},
        p \in (0..MaxPage) \cup {DefaultPage},
        r \in (1..MaxRows) \cup {DefaultRows},
        g \in {"", "name", "phone", "img"},
        f \in {"none", "my_circle"}}
NextSearch ==
    \/ \E r \in {Post(d) : d \in SearchDocs} \cup {Del(i) : i \in Ids}
                \cup SearchRequests : Receive(1, r)
    \/ \E ok \in BOOLEAN : PostSave(1, ok)
    \/ \E ok \in BOOLEAN : Delete(1, ok)
    \/ \E forwards \in BOOLEAN : SearchStart(1, forwards)
    \/ \E ok \in BOOLEAN, forwards \in BOOLEAN : SearchMe(1, ok, forwards)
    \/ \E ok \in BOOLEAN : SearchFind(1, ok)
    \/ \E ok \in BOOLEAN : SearchPopulate(1, ok)
    \/ \E ok \in BOOLEAN : SearchCount(1, ok)
    \/ Close(1)
SpecSearch == Init /\ [][NextSearch]_vars

\* ------------------------------------------------------------ properties
Is4xx(n) == n >= 400 /\ n <= 499
Is5xx(n) == n >= 500 /\ n <= 599
\* The step in which the handler of slot s answers its request.
Answers(s) == reqs[s].pc # "done" /\ reqs'[s].pc = "done"

\* C1: a POST /employees whose email is the email of a stored employee is
\* answered with a 4xx status and leaves the collection as it was.
C1_DuplicateEmailRejected ==
    [][\A s \in Slots :
          (Answers(s) /\ reqs[s].op = "post"
              /\ reqs[s].doc.email \in StoredEmails(store))
          => (Is4xx(reqs'[s].status) /\ store' = store)]_vars
\* A create, valid and with a fresh id, refused for its email alone.
C1_Witness ==
    \E s \in Slots :
       /\ reqs[s].pc = "done" /\ reqs[s].op = "post"
       /\ ValidDoc(reqs[s].req.doc)
       /\ ~Has(store, reqs[s].req.doc.id)
       /\ reqs[s].req.doc.email \in StoredEmails(store)
       /\ reqs[s].status = 400 /\ reqs[s].cause = "duplicate"

\* C3 as stated: GET, PUT and DELETE /employees/:id with an id that matches
\* no stored employee are answered 404 and leave the collection as it was
\* (the store answering the query).
C3_Original ==
    [][\A s \in Slots :
          (Answers(s) /\ reqs[s].op \in {"get", "put", "delete"}
              /\ ~Has(store, reqs[s].id) /\ reqs'[s].cause # "store")
          => (reqs'[s].status = 404 /\ store' = store)]_vars
\* The PUT body names a name, an email and a reportsTo that validate.
FullValidBody(b) == ValidSet(PutSet(b, FALSE))
\* C3 amended: with an id that matches no stored employee the collection is
\* left as it was; the answer is 404 when the id is a well-formed ObjectId,
\* the body of a PUT validates and the store answers the query, and 400
\* when the id is malformed.
C3_NotFound ==
    [][\A s \in Slots :
          (Answers(s) /\ reqs[s].op \in {"get", "put", "delete"}
              /\ ~Has(store, reqs[s].id))
          => /\ store' = store
             /\ (/\ CastsToObjectId(reqs[s].id)
                 /\ (reqs[s].op = "put" => FullValidBody(reqs[s].body))
                 /\ reqs'[s].cause # "store")
                => reqs'[s].status = 404
             /\ ~CastsToObjectId(reqs[s].id) => reqs'[s].status = 400]_vars
\* An update of a well-formed id that is not stored, answered 404, while
\* the collection holds other employees.
C3_Witness ==
    \E s \in Slots :
       /\ reqs[s].pc = "done" /\ reqs[s].op = "put"
       /\ CastsToObjectId(reqs[s].req.id) /\ ~Has(store, reqs[s].req.id)
       /\ reqs[s].status = 404
       /\ Len(store) > 0

\* C8: every answer has the status of its error's class: 4xx for a
\* validation or malformed-input failure, 404 for an id with no record, 5xx
\* for a failure of the store.
C8_ErrorClasses ==
    \A s \in Slots :
       reqs[s].pc = "done" =>
          /\ reqs[s].cause \in {"validation", "duplicate", "cast"}
                => Is4xx(reqs[s].status)
          /\ reqs[s].cause = "notfound" => reqs[s].status = 404
          /\ reqs[s].cause = "store" => Is5xx(reqs[s].status)

\* The stored employees other than x, in order.
Others(st, x) == SelectSeq(st, LAMBDA d : d.id # x)
\* C9: a successful DELETE or PUT of id X changes the record X only: every
\* other stored employee is stored unchanged afterwards, a reportsTo that
\* names X included, at the same position; DELETE removes X, PUT keeps it.
C9_Frame ==
    [][\A s \in Slots :
          (Answers(s) /\ reqs[s].op \in {"put", "delete"}
              /\ reqs'[s].status = 200)
          => LET x == reqs[s].id IN
             /\ Others(store', x) = Others(store, x)
             /\ Has(store, x)
             /\ Has(store', x) <=> reqs[s].op = "put"
             /\ Len(store') = IF reqs[s].op = "put" THEN Len(store)
                              ELSE Len(store) - 1]_vars
\* A manager deleted: a report still names it.
C9_Witness ==
    \E s \in Slots :
       /\ reqs[s].pc = "done" /\ reqs[s].op = "delete" /\ reqs[s].status = 200
       /\ ~Has(store, reqs[s].req.id)
       /\ \E i \in DOMAIN store : store[i].reportsTo = reqs[s].req.id

UniqueEmails(st) ==
    \A i, j \in DOMAIN st : i # j => st[i].email # st[j].email
\* C7: whatever the interleaving of concurrent creates and updates, no two
\* stored employees have the same email.
C7_UniqueEmails == UniqueEmails(store)
\* Two creates with one email, both answered: one stored, one refused.
C7_Witness ==
    \E s, t \in Slots :
       /\ s # t
       /\ reqs[s].pc = "done" /\ reqs[s].op = "post" /\ reqs[s].status = 201
       /\ reqs[t].pc = "done" /\ reqs[t].op = "post"
       /\ reqs[t].status = 400 /\ reqs[t].cause = "duplicate"
       /\ reqs[s].req.doc.email = reqs[t].req.doc.email
       /\ reqs[s].req.doc.id # reqs[t].req.doc.id

\* The employees a hierarchy response lists, in document order, each with
\* the employee whose children list holds it (NoId for the roots list).
RECURSIVE Listed(_, _)
Listed(forest, parent) ==
    IF forest = <<>> THEN <<>>
    ELSE <<[id |-> Head(forest).emp.id, under |-> parent]>>
         \o Listed(Head(forest).children, Head(forest).emp.id)
         \o Listed(Tail(forest), parent)
Times(seq, x) == Cardinality({i \in DOMAIN seq : seq[i].id = x})
\* x is listed exactly once, under p.
OnceUnder(forest, x, p) ==
    LET l == Listed(forest, NoId) IN
    /\ Times(l, x) = 1
    /\ \E i \in DOMAIN l : l[i] = [id |-> x, under |-> p]
\* The response of GET /employees/hierarchy in slot s, answered from the
\* collection as it is now.
HierarchyAnswered(s) ==
    reqs[s].pc = "done" /\ reqs[s].op = "hierarchy" /\ reqs[s].status = 200

\* C2 as stated: the hierarchy lists every stored employee exactly once, in
\* the roots list when its reportsTo is null and otherwise in the children
\* list of the employee its reportsTo names.
C2_Original ==
    HierarchyAnswered(1) =>
       \A i \in DOMAIN store :
          OnceUnder(reqs[1].body, store[i].id, store[i].reportsTo)
\* The chain of reportsTo from id ends, through stored employees, at an
\* employee without a manager.
RECURSIVE LeadsToRoot(_, _, _)
LeadsToRoot(st, id, n) ==
    IF id = NoId THEN TRUE
    ELSE IF n = 0 \/ ~Has(st, id) THEN FALSE
    ELSE LeadsToRoot(st, Find(st, id).reportsTo, n - 1)
InForest(st, d) == LeadsToRoot(st, d.reportsTo, Len(st))
\* C2 amended: the hierarchy lists exactly once, placed as stated, every
\* stored employee whose chain of managers ends at a stored employee without
\* a manager; an employee whose chain reaches an id that is not stored, or
\* runs in a cycle, is not listed at all.
C2_Hierarchy ==
    HierarchyAnswered(1) =>
       \A i \in DOMAIN store :
          IF InForest(store, store[i])
          THEN OnceUnder(reqs[1].body, store[i].id, store[i].reportsTo)
          ELSE Times(Listed(reqs[1].body, NoId), store[i].id) = 0
\* A response with a root, a report under it, and an employee left out.
C2_Witness ==
    /\ HierarchyAnswered(1)
    /\ \E i, j, k \in DOMAIN store :
          /\ store[i].reportsTo = NoId
          /\ store[j].reportsTo = store[i].id
          /\ ~InForest(store, store[k])

\* GET /employees/hierarchy on st lists x in roots and in no children list.
RootOnly(st, x) == OnceUnder(HierarchyBody(st), x, NoId)
\* C6: a PUT answered 200 whose reportsTo is null leaves its employee in the
\* roots list of the hierarchy and in no children list, and the employee
\* stays there for as long as its record is not changed.
C6_NullMakesRoot ==
    [][/\ \A s \in Slots :
            (Answers(s) /\ reqs[s].op = "put" /\ reqs'[s].status = 200
                /\ reqs[s].body.reportsTo = NoId)
            => RootOnly(store', reqs[s].id)
       /\ store' # store =>
            \A x \in Ids :
               (/\ Has(store, x) /\ Has(store', x)
                /\ Find(store', x) = Find(store, x)
                /\ RootOnly(store, x))
               => RootOnly(store', x)]_vars
\* An employee made a root by a PUT, with a report of its own under it.
C6_Witness ==
    \E s \in Slots :
       /\ reqs[s].pc = "done" /\ reqs[s].op = "put" /\ reqs[s].status = 200
       /\ reqs[s].req.body.reportsTo = NoId
       /\ RootOnly(store, reqs[s].req.id)
       /\ \E i \in DOMAIN store : store[i].reportsTo = reqs[s].req.id

\* The response of a search in slot s, answered 200; on one connection the
\* collection is still the one the queries read.
SearchAnswered(s) ==
    reqs[s].pc = "done" /\ reqs[s].op = "search" /\ reqs[s].status = 200
IdsOf(seq) == [i \in DOMAIN seq |-> seq[i].id]
Min(a, b) == IF a < b THEN a ELSE b
\* The slice of m that skips the first (p-1)*r entries and holds up to r.
SliceOf(m, p, r) ==
    LET rest == Len(m) - (p - 1) * r IN
    [i \in 1..(IF rest < 0 THEN 0 ELSE Min(r, rest)) |-> m[(p - 1) * r + i]]

InCircle(st, d) ==
    LET me == Find(st, CURRENT_USER_ID) IN
    \/ d.id = me.id
    \/ me.reportsTo # NoId /\ d.reportsTo = me.reportsTo
Circle(st) == SelectSeq(st, LAMBDA d : InCircle(st, d))
\* C5 as stated: a search with filter=my_circle returns exactly the circle
\* of the current employee.
C5_Original ==
    (SearchAnswered(1) /\ reqs[1].req.filter = "my_circle") =>
       Range(IdsOf(reqs[1].body.data)) = Range(IdsOf(Circle(store)))
\* C5 amended: a search with filter=my_circle returns, of the circle of the
\* current employee, the employees that match the search text: totalResults
\* counts them and data is the requested page of them (the whole circle for
\* an empty searchTerm and a page that holds it).
C5_MyCircle ==
    (SearchAnswered(1) /\ reqs[1].req.filter = "my_circle") =>
       LET q == reqs[1].req
           m == SelectSeq(Circle(store), LAMBDA d : TextMatch(q, d)) IN
       /\ reqs[1].body.totalResults = Len(m)
       /\ IdsOf(reqs[1].body.data)
            = IdsOf(SliceOf(m, AtLeast1(q.page), AtLeast1(q.rows)))
       /\ (q.term = Empty /\ q.group = "" /\ AtLeast1(q.page) = 1
              /\ Len(Circle(store)) <= AtLeast1(q.rows))
          => Range(IdsOf(reqs[1].body.data)) = Range(IdsOf(Circle(store)))
\* The current employee with a manager, a sibling returned with it and a
\* stored employee outside the circle left out.
C5_Witness ==
    /\ SearchAnswered(1) /\ reqs[1].req.filter = "my_circle"
    /\ Has(store, CURRENT_USER_ID)
    /\ Find(store, CURRENT_USER_ID).reportsTo # NoId
    /\ Len(reqs[1].body.data) = 2
    /\ Len(store) = 3

\* C10: no search request is left without its response: a handler that has
\* come to its end has answered.
C10_AlwaysAnswered ==
    \A s \in Slots : reqs[s].op = "search" => reqs[s].pc # "unanswered"
====
